---- MODULE Spec2Model ----
(***************************************************************************)
(* A model of scripts/extract_musicxml_lyrics.py: the event collector      *)
(* (collect_events), the plain path (extract_lyrics) and the enhanced path *)
(* (build_word_timings, merge_enhanced_lrc).                               *)
(*                                                                         *)
(* Representation.                                                         *)
(*  - A position (a Fraction in the code) is an integer number of ticks,   *)
(*    one tick being 1/TicksPerUnit of a reference duration; every         *)
(*    divisions value of the model divides TicksPerUnit, so                *)
(*    Fraction(n, divisions) is exactly n * (TicksPerUnit \div divisions). *)
(*  - An elapsed time (a float in the code) is an integer number of        *)
(*    milliseconds.  With the tempos of the model every segment is a       *)
(*    multiple of 125 ms, a value binary floating point represents         *)
(*    exactly, so the float sums and round(t * 100.0) of the code are the  *)
(*    exact ones computed here.                                            *)
(*  - A string is a sequence of one-character strings.                     *)
(*  - An optional value (None in the code) is a sequence of length 0 or 1. *)
(***************************************************************************)
EXTENDS Integers, Sequences, FiniteSets, TLC

VARIABLES
    pc,            \* where main() is: collect, collected, extracted, words, merged, error
    divisions,     \* collect_events: divisions
    global_pos,    \* collect_events: global_pos (ticks)
    current_pos,   \* collect_events: current_pos of the measure (ticks)
    max_pos,       \* collect_events: max_pos of the measure (ticks)
    lyric_events,  \* list of [pos, text, idx]
    tempo_events,  \* list of [pos, tempo]
    steps,         \* number of elements and measure ends read so far
    last,          \* history: the element just handled and the values before it
    cursor_seen,   \* history: the values current_pos has held in this measure
    marks,         \* history: max_pos at the end of each completed measure
    dedupe,        \* extract_lyrics: the dedupe argument
    sorted_events, \* history: lyric_events after the sort, before dedupe
    lines,         \* extract_lyrics: the lines, as [tag, text]
    raw_count,     \* extract_lyrics: raw_count
    raw_tempo,     \* history: the tempo events as collect_events returned them
    line_times,    \* history: the elapsed time of each line, in milliseconds
    word_timings,  \* build_word_timings: list of [pos, text]
    lrc_lines,     \* merge_enhanced_lrc: the base file, list of [tag, text]
    word_times,    \* merge_enhanced_lrc: list of [time, text]
    word_ms,       \* history: the elapsed time of each word, in milliseconds
    merge_map,     \* merge_enhanced_lrc: its tempo_events after its own normalization
    force,         \* merge_enhanced_lrc: force
    length_tolerance, \* merge_enhanced_lrc: length_tolerance, in centiseconds
    metadata_tags, \* merge_enhanced_lrc: metadata_tags
    output,        \* merge_enhanced_lrc: the returned lines
    error          \* the exception that ended the run, "" when none

vars == <<pc, divisions, global_pos, current_pos, max_pos, lyric_events,
          tempo_events, steps, last, cursor_seen, marks, dedupe, sorted_events,
          lines, raw_count, raw_tempo, line_times, word_timings, lrc_lines,
          word_times, word_ms, merge_map, force, length_tolerance, metadata_tags, output, error>>

collectVars == <<divisions, global_pos, current_pos, max_pos, steps, last,
                 cursor_seen, marks>>
extractVars == <<dedupe, sorted_events, lines, raw_count, raw_tempo, line_times>>
mergeVars == <<word_timings, lrc_lines, word_times, word_ms, merge_map, force,
               length_tolerance, metadata_tags, output>>

----------------------------------------------------------------------------
(* Bounds and input sets *)

\* Elements and measure ends read from one part.
MaxElems == 3
\* Lyric events of one part.
MaxLyrics == 3
\* Tempo events of one part.
MaxTempos == 1

\* The values of <divisions>.
DivisionValues == {1, 2}
\* The least common multiple of DivisionValues: ticks per reference duration.
TicksPerUnit ==
    CHOOSE t \in 1..8 :
        /\ \A d \in DivisionValues : t % d = 0
        /\ \A u \in 1..(t - 1) : \E d \in DivisionValues : u % d # 0

\* Raw <duration> values: absent or malformed (<<>>), or a positive integer.
DurationValues == {<<>>, <<1>>, <<2>>}
\* Tempos a <sound tempo=...> or <per-minute> can carry: absent or
\* malformed (<<>>), or a number; 0 is a non-negative decimal, as the format allows.
TempoValues == {<<>>, <<0>>, <<60>>, <<120>>}
\* Raw <offset> values of a direction: absent or malformed (<<>>), or an integer.
OffsetValues == {<<>>, <<-1>>}

Space == " "
Hyphen == "-"
\* The <text> of a lyric: empty (falsy, skipped), or a string.
LyricTexts == {<<>>, <<"a">>, <<"a", Hyphen>>, <<Space, "b">>}
\* The lyrics attached to one note.
\* Lyric events of the enhanced path's inputs.
MaxEvents == 2

LyricLists == {<<>>} \cup {<<t>> : t \in LyricTexts}
                 \cup {<<<<"a">>, <<"a">>>>, <<<<"a", Hyphen>>, <<Space, "b">>>>}

----------------------------------------------------------------------------
(* Strings *)

IsSpace(c) == c \in {" ", "\t"}

RECURSIVE lstrip(_)
\* str.lstrip(): leading whitespace removed.
lstrip(s) ==
    IF s # <<>> /\ IsSpace(Head(s)) THEN lstrip(Tail(s)) ELSE s

RECURSIVE rstrip(_)
\* str.rstrip(): trailing whitespace removed.
rstrip(s) ==
    IF s # <<>> /\ IsSpace(s[Len(s)]) THEN rstrip(SubSeq(s, 1, Len(s) - 1)) ELSE s

\* str.strip()
strip(s) == rstrip(lstrip(s))

----------------------------------------------------------------------------
(* collect_events *)

\* Fraction(n, divisions), in ticks.
Frac(n, d) == n * (TicksPerUnit \div d)

RECURSIVE AppendLyrics(_, _, _)
\* for lyric in child.findall("lyric"): a lyric with a non-empty text is
\* appended at pos with its text stripped and idx = len(lyric_events).
AppendLyrics(events, lyrics, pos) ==
    IF lyrics = <<>> THEN events
    ELSE AppendLyrics(
            IF Head(lyrics) # <<>>
            THEN Append(events, [pos |-> pos, text |-> strip(Head(lyrics)),
                                 idx |-> Len(events)])
            ELSE events,
            Tail(lyrics), pos)

\* A variant of NoteLyrics that records the lyrics before it looks at the duration.
NoteLyricsAlways(events, dur, lyrics, pos) == AppendLyrics(events, lyrics, pos)

\* What the note branch does to the lyric events: nothing when the duration
\* is absent or malformed (continue), else the lyrics of the note are appended.
NoteLyrics(events, dur, lyrics, pos) ==
    IF dur = <<>> THEN events ELSE AppendLyrics(events, lyrics, pos)

\* What the note branch does to current_pos.
NoteCursor(cur, dur, isChord, d) ==
    IF dur = <<>> \/ isChord THEN cur ELSE cur + Frac(dur[1], d)

\* What the backup / forward branch does to current_pos.
BackupCursor(cur, dur, d) == IF dur = <<>> THEN cur ELSE cur - Frac(dur[1], d)
ForwardCursor(cur, dur, d) == IF dur = <<>> THEN cur ELSE cur + Frac(dur[1], d)

\* A variant of RaiseMax that follows the cursor down as well as up.
RaiseMaxAlways(mx, cur) == cur

\* if current_pos > max_pos: max_pos = current_pos
RaiseMax(mx, cur) == IF cur > mx THEN cur ELSE mx

\* What the note branch does to max_pos, cur being the new current_pos.
NoteMax(mx, cur, dur, isChord) ==
    IF dur = <<>> \/ isChord THEN mx ELSE RaiseMax(mx, cur)

\* What the forward branch does to max_pos, cur being the new current_pos.
ForwardMax(mx, cur, dur) == IF dur = <<>> THEN mx ELSE RaiseMax(mx, cur)

Collecting == pc = "collect" /\ steps < MaxElems

Snapshot(op, dur) ==
    [op |-> op, dur |-> dur, cur |-> current_pos, max |-> max_pos,
     gp |-> global_pos, events |-> lyric_events, lyrics |-> <<>>]

\* <attributes> with a <divisions> value.
Attributes ==
    /\ Collecting
    /\ \E d \in DivisionValues : divisions' = d
    /\ steps' = steps + 1
    /\ last' = Snapshot("attributes", <<>>)
    /\ UNCHANGED <<pc, global_pos, current_pos, max_pos, lyric_events,
                   tempo_events, cursor_seen, marks, error>>
    /\ UNCHANGED <<extractVars, mergeVars>>

\* <direction>: a tempo (from parse_tempo_from_direction) and an optional offset.
Direction ==
    /\ Collecting
    /\ \E tempo \in TempoValues, off \in OffsetValues :
         LET offset == IF off = <<>> THEN 0 ELSE Frac(off[1], divisions) IN
         /\ tempo # <<>> => Len(tempo_events) < MaxTempos
         /\ tempo_events' =
              IF tempo = <<>> THEN tempo_events
              ELSE Append(tempo_events,
                          [pos |-> global_pos + current_pos + offset,
                           tempo |-> tempo[1]])
    /\ steps' = steps + 1
    /\ last' = Snapshot("direction", <<>>)
    /\ UNCHANGED <<pc, divisions, global_pos, current_pos, max_pos,
                   lyric_events, cursor_seen, marks, error>>
    /\ UNCHANGED <<extractVars, mergeVars>>

\* <sound> as a child of the measure.
Sound ==
    /\ Collecting
    /\ \E tempo \in TempoValues :
         /\ tempo # <<>> => Len(tempo_events) < MaxTempos
         /\ tempo_events' =
              IF tempo = <<>> THEN tempo_events
              ELSE Append(tempo_events,
                          [pos |-> global_pos + current_pos, tempo |-> tempo[1]])
    /\ steps' = steps + 1
    /\ last' = Snapshot("sound", <<>>)
    /\ UNCHANGED <<pc, divisions, global_pos, current_pos, max_pos,
                   lyric_events, cursor_seen, marks, error>>
    /\ UNCHANGED <<extractVars, mergeVars>>

\* <note>
Note ==
    /\ Collecting
    /\ \E dur \in DurationValues, isChord \in BOOLEAN, lyrics \in LyricLists :
         /\ lyric_events' =
              NoteLyrics(lyric_events, dur, lyrics, global_pos + current_pos)
         /\ Len(lyric_events') <= MaxLyrics
         /\ current_pos' = NoteCursor(current_pos, dur, isChord, divisions)
         /\ max_pos' = NoteMax(max_pos, current_pos', dur, isChord)
         /\ last' = [Snapshot(IF isChord THEN "chord" ELSE "note", dur)
                        EXCEPT !.lyrics = lyrics]
    /\ cursor_seen' = cursor_seen \cup {current_pos'}
    /\ steps' = steps + 1
    /\ UNCHANGED <<pc, divisions, global_pos, tempo_events, marks, error>>
    /\ UNCHANGED <<extractVars, mergeVars>>

\* <backup>
Backup ==
    /\ Collecting
    /\ \E dur \in DurationValues :
         /\ current_pos' = BackupCursor(current_pos, dur, divisions)
         /\ last' = Snapshot("backup", dur)
    /\ cursor_seen' = cursor_seen \cup {current_pos'}
    /\ steps' = steps + 1
    /\ UNCHANGED <<pc, divisions, global_pos, max_pos, lyric_events,
                   tempo_events, marks, error>>
    /\ UNCHANGED <<extractVars, mergeVars>>

\* <forward>
Forward ==
    /\ Collecting
    /\ \E dur \in DurationValues :
         /\ current_pos' = ForwardCursor(current_pos, dur, divisions)
         /\ max_pos' = ForwardMax(max_pos, current_pos', dur)
         /\ last' = Snapshot("forward", dur)
    /\ cursor_seen' = cursor_seen \cup {current_pos'}
    /\ steps' = steps + 1
    /\ UNCHANGED <<pc, divisions, global_pos, lyric_events, tempo_events,
                   marks, error>>
    /\ UNCHANGED <<extractVars, mergeVars>>

\* What the end of a measure does to global_pos.
MeasureAdvance(gp, mx) == IF mx > 0 THEN gp + mx ELSE gp

\* The end of a measure, and the start of the next one.
MeasureEnd ==
    /\ Collecting
    /\ global_pos' = MeasureAdvance(global_pos, max_pos)
    /\ marks' = Append(marks, max_pos)
    /\ current_pos' = 0
    /\ max_pos' = 0
    /\ cursor_seen' = {0}
    /\ steps' = steps + 1
    /\ last' = Snapshot("measure_end", <<>>)
    /\ UNCHANGED <<pc, divisions, lyric_events, tempo_events, error>>
    /\ UNCHANGED <<extractVars, mergeVars>>

\* The end of the part: the last measure ends, and collect_events returns
\* or raises "No lyrics found in target part".
CollectReturn ==
    /\ pc = "collect"
    /\ global_pos' = MeasureAdvance(global_pos, max_pos)
    /\ marks' = Append(marks, max_pos)
    /\ last' = Snapshot("return", <<>>)
    /\ IF lyric_events = <<>>
       THEN pc' = "error" /\ error' = "No lyrics found in target part"
       ELSE pc' = "collected" /\ error' = ""
    /\ UNCHANGED <<divisions, current_pos, max_pos, lyric_events, tempo_events,
                   steps, cursor_seen>>
    /\ UNCHANGED <<extractVars, mergeVars>>

----------------------------------------------------------------------------
(* extract_lyrics *)

RECURSIVE InsertTempo(_, _)
\* e placed after every entry of the sorted list s whose position is <= e.pos.
InsertTempo(s, e) ==
    IF s = <<>> THEN <<e>>
    ELSE IF s[Len(s)].pos <= e.pos THEN Append(s, e)
    ELSE Append(InsertTempo(SubSeq(s, 1, Len(s) - 1), e), s[Len(s)])

RECURSIVE SortTempo(_)
\* tempo_events.sort(key=lambda x: x[0]): a stable sort by position.
SortTempo(s) ==
    IF s = <<>> THEN <<>>
    ELSE InsertTempo(SortTempo(SubSeq(s, 1, Len(s) - 1)), s[Len(s)])

\* The default tempo of a part with no tempo event.
DefaultTempo == 120

\* The normalization of the tempo events: sorted; an entry at position 0 with
\* the first tempo put first when the first position is > 0; the default
\* entry when there is no event.
NormalizeTempo(events) ==
    LET s == SortTempo(events) IN
    IF s # <<>>
    THEN IF s[1].pos > 0 THEN <<[pos |-> 0, tempo |-> s[1].tempo]>> \o s ELSE s
    ELSE <<[pos |-> 0, tempo |-> DefaultTempo]>>

\* A variant of LyricKeyLeq that sorts by position alone, ties not kept in order.
LyricKeyLeqPosOnly(a, b) == a.pos < b.pos

\* The sort key (x[0], x[2]) of a lyric event: a before or equal to b.
LyricKeyLeq(a, b) == a.pos < b.pos \/ (a.pos = b.pos /\ a.idx <= b.idx)

RECURSIVE InsertLyric(_, _)
InsertLyric(s, e) ==
    IF s = <<>> THEN <<e>>
    ELSE IF LyricKeyLeq(s[Len(s)], e) THEN Append(s, e)
    ELSE Append(InsertLyric(SubSeq(s, 1, Len(s) - 1), e), s[Len(s)])

RECURSIVE SortLyrics(_)
\* lyric_events.sort(key=lambda x: (x[0], x[2]))
SortLyrics(s) ==
    IF s = <<>> THEN <<>>
    ELSE InsertLyric(SortLyrics(SubSeq(s, 1, Len(s) - 1)), s[Len(s)])

RECURSIVE DedupeFrom(_, _, _)
\* The dedupe loop: kept is deduped_events, lastKey is last_key (<<>> for None).
DedupeFrom(events, kept, lastKey) ==
    IF events = <<>> THEN kept
    ELSE LET e == Head(events)
             key == <<e.pos, e.text>>
         IN IF lastKey = <<key>>
            THEN DedupeFrom(Tail(events), kept, lastKey)
            ELSE DedupeFrom(Tail(events), Append(kept, e), <<key>>)

RECURSIVE DedupeTextFrom(_, _, _)
DedupeTextFrom(events, kept, lastText) ==
    IF events = <<>> THEN kept
    ELSE IF lastText = <<Head(events).text>>
         THEN DedupeTextFrom(Tail(events), kept, lastText)
         ELSE DedupeTextFrom(Tail(events), Append(kept, Head(events)),
                             <<Head(events).text>>)

\* A variant of Dedupe that compares the text alone, not (position, text).
DedupeByText(events) == DedupeTextFrom(events, <<>>, <<>>)

\* The dedupe branch of extract_lyrics.
Dedupe(events) == DedupeFrom(events, <<>>, <<>>)

\* float(delta) * 60.0 / current_tempo, in milliseconds, for a tempo # 0.
SegmentMs(delta, tempo) == (delta * 60000) \div (TicksPerUnit * tempo)

\* The scan's state before the first position.
ScanStart(tm) ==
    [pos |-> 0, time |-> 0, tempo |-> tm[1].tempo, idx |-> 1, ok |-> TRUE]

RECURSIVE PassBreakpoints(_, _, _)
\* The while loop of the scan: every breakpoint at or before pos is passed.
\* A division by a tempo of 0 raises ZeroDivisionError (ok becomes FALSE).
PassBreakpoints(tm, st, pos) ==
    IF st.ok /\ st.idx + 1 <= Len(tm) /\ tm[st.idx + 1].pos <= pos
    THEN IF st.tempo = 0 THEN [st EXCEPT !.ok = FALSE]
         ELSE PassBreakpoints(tm,
                [pos |-> tm[st.idx + 1].pos,
                 time |-> st.time + SegmentMs(tm[st.idx + 1].pos - st.pos, st.tempo),
                 tempo |-> tm[st.idx + 1].tempo,
                 idx |-> st.idx + 1,
                 ok |-> TRUE],
                pos)
    ELSE st

\* One iteration of the scan's for loop: the state after position pos.
ScanStep(tm, st, pos) ==
    LET s == PassBreakpoints(tm, st, pos)
        delta == pos - s.pos
    IN IF ~s.ok \/ delta = 0 THEN s
       ELSE IF s.tempo = 0 THEN [s EXCEPT !.ok = FALSE]
       ELSE [s EXCEPT !.time = s.time + SegmentMs(delta, s.tempo), !.pos = pos]

RECURSIVE ScanFrom(_, _, _, _)
ScanFrom(tm, st, positions, times) ==
    IF positions = <<>> \/ ~st.ok THEN [times |-> times, ok |-> st.ok]
    ELSE LET s == ScanStep(tm, st, Head(positions))
         IN ScanFrom(tm, s, Tail(positions),
                     IF s.ok THEN Append(times, s.time) ELSE times)

\* The forward scan of extract_lyrics over the positions of the lyric events:
\* the elapsed times, in milliseconds, and whether the scan ended normally.
ExtractScan(tm, positions) == ScanFrom(tm, ScanStart(tm), positions, <<>>)

\* int(round(ms / 10)): Python rounds a half to the even neighbour.
RoundCentis(ms) ==
    LET q == ms \div 10
        r == ms % 10
    IN IF r < 5 THEN q
       ELSE IF r > 5 THEN q + 1
       ELSE IF q % 2 = 0 THEN q ELSE q + 1

DigitChars == <<"0", "1", "2", "3", "4", "5", "6", "7", "8", "9">>

RECURSIVE Decimal(_)
\* The decimal digits of n >= 0.
Decimal(n) ==
    IF n < 10 THEN <<DigitChars[n + 1]>>
    ELSE Append(Decimal(n \div 10), DigitChars[(n % 10) + 1])

\* f"{n:02d}": zero padded to a width of at least 2, the sign included.
Format02d(n) ==
    IF n < 0 THEN <<"-">> \o Decimal(-n)
    ELSE IF n < 10 THEN <<"0">> \o Decimal(n)
    ELSE Decimal(n)

\* format_timecode, of a time in milliseconds: "mm:ss.cc".
format_timecode(ms) ==
    LET total_centis == RoundCentis(ms)
        minutes == total_centis \div 6000
        secs == (total_centis \div 100) % 60
        centis == total_centis % 100
    IN Format02d(minutes) \o <<":">> \o Format02d(secs) \o <<".">> \o Format02d(centis)

\* The lines of extract_lyrics: "[mm:ss.cc] text", kept as [tag, text].
PlainLines(events, times) ==
    [i \in 1..Len(events) |->
        [tag |-> <<"[">> \o format_timecode(times[i]) \o <<"]">>,
         text |-> events[i].text]]

Positions(events) == [i \in 1..Len(events) |-> events[i].pos]

\* extract_lyrics, after collect_events returned.
ExtractLyrics ==
    /\ pc = "collected"
    /\ \E d \in BOOLEAN :
         LET tm == NormalizeTempo(tempo_events)
             srt == SortLyrics(lyric_events)
             evs == IF d THEN Dedupe(srt) ELSE srt
             scan == ExtractScan(tm, Positions(evs))
         IN /\ dedupe' = d
            /\ tempo_events' = tm
            /\ sorted_events' = srt
            /\ raw_count' = Len(srt)
            /\ raw_tempo' = tempo_events
            /\ line_times' = scan.times
            /\ lyric_events' = evs
            /\ IF scan.ok
               THEN /\ lines' = PlainLines(evs, scan.times)
                    /\ pc' = "extracted"
                    /\ error' = ""
               ELSE /\ lines' = <<>>
                    /\ pc' = "error"
                    /\ error' = "ZeroDivisionError"
    /\ UNCHANGED <<collectVars, mergeVars>>

----------------------------------------------------------------------------
(* build_word_timings *)

\* str.endswith("-")
EndsWithHyphen(s) == s # <<>> /\ s[Len(s)] = Hyphen

\* A variant of BufferTime that takes the position of every syllable, the last
\* one of a run in the end.
BufferTimeLatest(buffer_time, pos) == <<pos>>

\* The start of a word's buffer: buffer_time stays when set, else pos.
BufferTime(buffer_time, pos) == IF buffer_time = <<>> THEN <<pos>> ELSE buffer_time

RECURSIVE WordsFrom(_, _, _, _)
\* The loop of build_word_timings and the flush after it; buffer_time is
\* <<>> for None.
WordsFrom(events, words, buffer_text, buffer_time) ==
    IF events = <<>>
    THEN IF buffer_time # <<>> /\ buffer_text # <<>>
         THEN Append(words, [pos |-> buffer_time[1], text |-> buffer_text])
         ELSE words
    ELSE LET bt == BufferTime(buffer_time, Head(events).pos)
             cleaned == strip(Head(events).text)
         IN IF EndsWithHyphen(cleaned)
            THEN WordsFrom(Tail(events), words,
                           buffer_text \o SubSeq(cleaned, 1, Len(cleaned) - 1), bt)
            ELSE WordsFrom(Tail(events),
                           Append(words, [pos |-> bt[1],
                                          text |-> buffer_text \o cleaned]),
                           <<>>, <<>>)

build_word_timings(events) == WordsFrom(events, <<>>, <<>>, <<>>)

\* main(), the enhanced path: the events are sorted again and merged into words.
BuildWordTimings ==
    /\ pc = "extracted"
    /\ lyric_events' = SortLyrics(lyric_events)
    /\ word_timings' = build_word_timings(lyric_events')
    /\ pc' = "words"
    /\ UNCHANGED <<tempo_events, error, lrc_lines, word_times, word_ms,
                   merge_map, force, length_tolerance, metadata_tags, output>>
    /\ UNCHANGED <<collectVars, extractVars>>

----------------------------------------------------------------------------
(* merge_enhanced_lrc *)

IsDigit(c) == \E i \in 1..10 : DigitChars[i] = c
DigitValue(c) == (CHOOSE i \in 1..10 : DigitChars[i] = c) - 1

\* parse_time_tag: the tag must match ^\[(\d{2}):(\d{2})\.(\d{2})\]$; the
\* result is in centiseconds, <<>> for None.
parse_time_tag(tag) ==
    IF /\ Len(tag) = 10
       /\ tag[1] = "[" /\ tag[4] = ":" /\ tag[7] = "." /\ tag[10] = "]"
       /\ \A i \in {2, 3, 5, 6, 8, 9} : IsDigit(tag[i])
    THEN <<(((DigitValue(tag[2]) * 10 + DigitValue(tag[3])) * 60)
            + DigitValue(tag[5]) * 10 + DigitValue(tag[6])) * 100
           + DigitValue(tag[8]) * 10 + DigitValue(tag[9])>>
    ELSE <<>>

RECURSIVE LastTimeFrom(_, _)
LastTimeFrom(ls, last_time) ==
    IF ls = <<>> THEN last_time
    ELSE LET parsed == IF Head(ls).tag = <<>> THEN <<>>
                       ELSE parse_time_tag(Head(ls).tag)
         IN LastTimeFrom(Tail(ls), IF parsed # <<>> THEN parsed ELSE last_time)

\* last_lrc_time: the last parseable time tag, <<>> for None.
last_lrc_time(ls) == LastTimeFrom(ls, <<>>)

\* The character class both patterns of normalize_token open with; the
\* doubled backslashes of the raw strings end the class after the "[".  (The
\* class also holds the four typographic quotes, which no token here has.)
QuoteClass == {"\"", "'", "\\", "(", ")", "["}

\* s has the characters of lit from index i on.
HasAt(s, i, lit) ==
    /\ i >= 1
    /\ i + Len(lit) - 1 <= Len(s)
    /\ \A k \in 1..Len(lit) : s[i + k - 1] = lit[k]

\* Every character of s from index i on is "]", and there is at least one.
BracketsToEnd(s, i) == i <= Len(s) /\ \A k \in i..Len(s) : s[k] = "]"

\* The length of the match of ^[class]{}<>]+ at the start of s, 0 for none.
LeadMatchLen(s) ==
    IF s # <<>> /\ s[1] \in QuoteClass /\ HasAt(s, 2, <<"{", "}", "<", ">", "]">>)
    THEN CHOOSE n \in 6..Len(s) :
            /\ \A k \in 6..n : s[k] = "]"
            /\ (n = Len(s) \/ s[n + 1] # "]")
    ELSE 0

\* [class]{}<>:;,\\.\\?!]+$ matches s from index i to its end.
TrailMatchAt(s, i) ==
    /\ i >= 1 /\ i <= Len(s)
    /\ s[i] \in QuoteClass
    /\ HasAt(s, i + 1, <<"{", "}", "<", ">", ":", ";", ",", "\\">>)
    /\ i + 9 <= Len(s) /\ s[i + 9] # "\n"
    /\ \/ HasAt(s, i + 10, <<"\\", "!">>) /\ BracketsToEnd(s, i + 12)
       \/ HasAt(s, i + 10, <<"!">>) /\ BracketsToEnd(s, i + 11)

\* str.lower(), on the letters of the model.
LowerChar(c) ==
    CASE c = "A" -> "a"
      [] c = "B" -> "b"
      [] OTHER -> c

\* normalize_token: the two re.sub calls, strip() and lower().
normalize_token(token) ==
    LET afterLead == SubSeq(token, LeadMatchLen(token) + 1, Len(token))
        starts == {i \in 1..Len(afterLead) : TrailMatchAt(afterLead, i)}
        cut == IF starts = {} THEN Len(afterLead) + 1
               ELSE CHOOSE i \in starts : \A j \in starts : i <= j
        cleaned == strip(SubSeq(afterLead, 1, cut - 1))
    IN [k \in 1..Len(cleaned) |-> LowerChar(cleaned[k])]

\* Whether a token of a line takes a word: the test of the alignment loop.
TakesWord(token) == normalize_token(token) # <<>>

RECURSIVE Split(_)
\* str.split(" "): the pieces between single spaces, empty ones included.
Split(s) ==
    IF \E i \in 1..Len(s) : s[i] = Space
    THEN LET i == CHOOSE k \in 1..Len(s) :
                     s[k] = Space /\ \A j \in 1..(k - 1) : s[j] # Space
         IN <<SubSeq(s, 1, i - 1)>> \o Split(SubSeq(s, i + 1, Len(s)))
    ELSE <<s>>

RECURSIVE Join(_)
\* " ".join(tokens)
Join(tokens) ==
    IF tokens = <<>> THEN <<>>
    ELSE IF Len(tokens) = 1 THEN tokens[1]
    ELSE tokens[1] \o <<Space>> \o Join(Tail(tokens))

\* The sort and the zero entry merge_enhanced_lrc applies to its tempo_events.
RenormalizeTempo(events) ==
    LET s == SortTempo(events) IN
    IF s # <<>>
    THEN IF s[1].pos > 0 THEN <<[pos |-> 0, tempo |-> s[1].tempo]>> \o s ELSE s
    ELSE <<[pos |-> 0, tempo |-> DefaultTempo]>>

\* A variant of positions_to_times that passes no breakpoint: every position
\* is converted at the first tempo of the map.
positions_to_times_first_tempo(tm, positions) ==
    IF \E i \in 1..Len(positions) : positions[i] # 0 /\ tm[1].tempo = 0
    THEN [times |-> <<>>, ok |-> FALSE]
    ELSE [times |-> [i \in 1..Len(positions) |->
                       IF positions[i] = 0 THEN 0
                       ELSE SegmentMs(positions[i], tm[1].tempo)],
          ok |-> TRUE]

\* positions_to_times: the elapsed times of the word positions, in
\* milliseconds, and whether the scan ended normally.
positions_to_times(tm, positions) == ScanFrom(tm, ScanStart(tm), positions, <<>>)

\* word_times: (format_timecode(t), w) for every word.
WordTimes(words, times) ==
    [i \in 1..Len(words) |->
        [time |-> format_timecode(times[i]), text |-> words[i].text]]

\* Whether the length check raises: both times are known, and the last word
\* is later than the last tag by more than the tolerance, without force.
LengthMismatch(ls, wt, f, tol) ==
    LET lrc_length == last_lrc_time(ls) IN
    /\ lrc_length # <<>>
    /\ wt # <<>>
    /\ LET last_word_seconds ==
               parse_time_tag(<<"[">> \o wt[Len(wt)].time \o <<"]">>)
       IN /\ last_word_seconds # <<>>
          /\ last_word_seconds[1] - lrc_length[1] > tol
          /\ ~f

\* The tags of the file that are lines of their own and no time tag.
ExistingTags(ls) ==
    {ls[i].tag : i \in {j \in 1..Len(ls) :
        ls[j].tag # <<>> /\ ls[j].text = <<>> /\ parse_time_tag(ls[j].tag) = <<>>}}

RECURSIVE MetadataLines(_, _)
\* The metadata tags the file does not hold already, in their order.
MetadataLines(tags, existing) ==
    IF tags = <<>> THEN <<>>
    ELSE (IF Head(tags) \in existing THEN <<>> ELSE <<Head(tags)>>)
         \o MetadataLines(Tail(tags), existing)

\* What the alignment loop appends for one token that takes a word.
TagToken(word_time, token) == <<"<">> \o word_time \o <<">">> \o token

RECURSIVE EnhanceTokens(_, _, _, _)
\* The loop over the tokens of one line: the enhanced tokens and word_index
\* (the number of words used so far).
EnhanceTokens(tokens, wt, word_index, enhanced) ==
    IF tokens = <<>> THEN [tokens |-> enhanced, word_index |-> word_index]
    ELSE LET token == Head(tokens) IN
         IF token = <<>>
         THEN EnhanceTokens(Tail(tokens), wt, word_index, enhanced)
         ELSE IF ~TakesWord(token) \/ word_index >= Len(wt)
         THEN EnhanceTokens(Tail(tokens), wt, word_index, Append(enhanced, token))
         ELSE EnhanceTokens(Tail(tokens), wt, word_index + 1,
                            Append(enhanced,
                                   TagToken(wt[word_index + 1].time, token)))

RECURSIVE EnhanceLines(_, _, _, _)
\* The loop over the lines of the file.
EnhanceLines(ls, wt, word_index, out) ==
    IF ls = <<>> THEN out
    ELSE LET l == Head(ls) IN
         IF l.text = <<>>
         THEN EnhanceLines(Tail(ls), wt, word_index, Append(out, l.tag))
         ELSE LET e == EnhanceTokens(Split(l.text), wt, word_index, <<>>)
              IN EnhanceLines(Tail(ls), wt, e.word_index,
                     Append(out, rstrip(l.tag \o <<Space>> \o Join(e.tokens))))

\* The base files of the enhanced path, as read_lrc_lines returns them.
Tag0000 == <<"[", "0", "0", ":", "0", "0", ".", "0", "0", "]">>
Tag0100 == <<"[", "0", "1", ":", "0", "0", ".", "0", "0", "]">>
TagTi == <<"[", "t", "i", ":", "x", "]">>
LrcLine(tag, text) == [tag |-> tag, text |-> text]
LrcFiles ==
    { <<LrcLine(Tag0000, <<"a", Space, "!", Space, "B">>),
        LrcLine(Tag0100, <<"b">>)>>,
      <<LrcLine(TagTi, <<>>), LrcLine(<<>>, <<>>),
        LrcLine(Tag0100, <<"a", Space, Space, "b">>)>>,
      <<LrcLine(<<>>, <<"a", Space, "\t", Space, "b">>)>>,
      <<LrcLine(Tag0100,
                <<"'", "{", "}", "<", ">", "]", Space,
                  "a", "'", "{", "}", "<", ">", ":", ";", ",", "\\", "x", "!", "]">>)>>,
      <<LrcLine(Tag0000, <<>>),
        LrcLine(Tag0100, <<"a", Space, "b", Space, "c">>)>> }
\* length_tolerance, in centiseconds: the default of 5.0 seconds.
Tolerances == {500}
MetadataInputs == {<<TagTi>>}

\* merge_enhanced_lrc, called by main() with the words and the tempo map that
\* extract_lyrics returned.
MergeEnhanced ==
    /\ pc = "words"
    /\ \E file \in LrcFiles, f \in BOOLEAN, tol \in Tolerances,
          meta \in MetadataInputs :
         LET tm == RenormalizeTempo(tempo_events)
             scan == positions_to_times(tm, Positions(word_timings))
             wt == WordTimes(word_timings, scan.times)
         IN /\ lrc_lines' = file
            /\ force' = f
            /\ length_tolerance' = tol
            /\ metadata_tags' = meta
            /\ merge_map' = tm
            /\ word_ms' = scan.times
            /\ IF ~scan.ok
               THEN /\ pc' = "error"
                    /\ error' = "ZeroDivisionError"
                    /\ word_times' = <<>>
                    /\ output' = <<>>
               ELSE IF LengthMismatch(file, wt, f, tol)
               THEN /\ pc' = "error"
                    /\ error' = "Song length mismatch"
                    /\ word_times' = wt
                    /\ output' = <<>>
               ELSE /\ pc' = "merged"
                    /\ error' = ""
                    /\ word_times' = wt
                    /\ output' = MetadataLines(meta, ExistingTags(file))
                                   \o EnhanceLines(file, wt, 0, <<>>)
    /\ UNCHANGED <<lyric_events, tempo_events, word_timings>>
    /\ UNCHANGED <<collectVars, extractVars>>

----------------------------------------------------------------------------
(* The specifications *)

NoSnapshot ==
    [op |-> "start", dur |-> <<>>, cur |-> 0, max |-> 0, gp |-> 0,
     events |-> <<>>, lyrics |-> <<>>]

InitRest ==
    /\ dedupe = FALSE
    /\ sorted_events = <<>>
    /\ lines = <<>>
    /\ raw_count = 0
    /\ raw_tempo = <<>>
    /\ line_times = <<>>
    /\ word_timings = <<>>
    /\ lrc_lines = <<>>
    /\ word_times = <<>>
    /\ word_ms = <<>>
    /\ merge_map = <<>>
    /\ force = FALSE
    /\ length_tolerance = 0
    /\ metadata_tags = <<>>
    /\ output = <<>>
    /\ error = ""

\* main() on a part, before the first measure is read.
Init ==
    /\ pc = "collect"
    /\ divisions = 1
    /\ global_pos = 0
    /\ current_pos = 0
    /\ max_pos = 0
    /\ lyric_events = <<>>
    /\ tempo_events = <<>>
    /\ steps = 0
    /\ last = NoSnapshot
    /\ cursor_seen = {0}
    /\ marks = <<>>
    /\ InitRest

\* The plain path: the part is read element by element, then extract_lyrics.
Next ==
    \/ Attributes
    \/ Direction
    \/ Sound
    \/ Note
    \/ Backup
    \/ Forward
    \/ MeasureEnd
    \/ CollectReturn
    \/ ExtractLyrics

Spec == Init /\ [][Next]_vars

\* Positions of the lyric events of the enhanced path's inputs, in ticks: at
\* 60 beats per minute 130 ticks are 65 s, 132 ticks 66 s, 12000 ticks 100 min.
EnhPositions == {0, 130, 132, 12000}
EnhTexts == {<<"a">>, <<"a", Hyphen>>, <<Hyphen>>}
TempoEvent(p, t) == [pos |-> p, tempo |-> t]
\* The raw tempo events of the enhanced path's inputs.
TempoInputs ==
    { <<>>,
      <<TempoEvent(0, 60)>>,
      <<TempoEvent(132, 120)>>,
      <<TempoEvent(132, 120), TempoEvent(0, 60)>>,
      <<TempoEvent(-4, 60), TempoEvent(-2, 120)>>,
      <<TempoEvent(0, 60), TempoEvent(132, 0)>> }

\* What collect_events can return: the lyric events in discovery order, at any
\* positions (backup and forward move the cursor both ways).
InitEnh ==
    /\ pc = "collected"
    /\ divisions = 1
    /\ global_pos = 0
    /\ current_pos = 0
    /\ max_pos = 0
    /\ \E n \in 1..MaxEvents :
         \E ps \in [1..n -> EnhPositions], ts \in [1..n -> EnhTexts] :
            lyric_events = [i \in 1..n |->
                              [pos |-> ps[i], text |-> ts[i], idx |-> i - 1]]
    /\ tempo_events \in TempoInputs
    /\ steps = 0
    /\ last = NoSnapshot
    /\ cursor_seen = {0}
    /\ marks = <<>>
    /\ InitRest

\* The enhanced path, after collect_events.
NextEnh ==
    \/ ExtractLyrics
    \/ BuildWordTimings
    \/ MergeEnhanced

SpecEnh == InitEnh /\ [][NextEnh]_vars

----------------------------------------------------------------------------
(* Properties of collect_events and extract_lyrics, under Spec *)

RECURSIVE SumSeq(_)
SumSeq(q) == IF q = <<>> THEN 0 ELSE Head(q) + SumSeq(Tail(q))

SetMax(S) == CHOOSE m \in S : \A x \in S : x <= m

\* extract_lyrics has run: it returned, or its scan raised.
Extracted == pc = "extracted" \/ (pc = "error" /\ error = "ZeroDivisionError")

RECURSIVE TextCount(_)
TextCount(lyrics) ==
    IF lyrics = <<>> THEN 0
    ELSE (IF Head(lyrics) # <<>> THEN 1 ELSE 0) + TextCount(Tail(lyrics))

DurationlessNote == last.op \in {"note", "chord"} /\ last.dur = <<>>

\* C7 as stated: a note whose duration is missing or malformed leaves
\* current_pos and max_pos alone, every lyric of the note is still appended
\* as an event at global_pos + current_pos, and the run goes on.
C7_LyricsStillEmitted ==
    DurationlessNote =>
        /\ current_pos = last.cur
        /\ max_pos = last.max
        /\ pc = "collect" /\ error = ""
        /\ Len(lyric_events) = Len(last.events) + TextCount(last.lyrics)
        /\ \A i \in (Len(last.events) + 1)..Len(lyric_events) :
              lyric_events[i].pos = last.gp + last.cur

\* C7 amended: a note whose duration is missing or malformed is skipped as a
\* whole: current_pos, max_pos and the lyric events stay as they were (none
\* of the note's lyrics is appended), and the run goes on.
C7_DurationlessNoteSkipped ==
    DurationlessNote =>
        /\ current_pos = last.cur
        /\ max_pos = last.max
        /\ global_pos = last.gp
        /\ pc = "collect" /\ error = ""
        /\ lyric_events = last.events

\* C7 witness: a note without a duration that carries a lyric with a text,
\* read after another note's lyric was recorded.
C7_Witness ==
    /\ DurationlessNote
    /\ TextCount(last.lyrics) > 0
    /\ lyric_events # <<>>

\* C8: the events extract_lyrics returns, and its lines with them, are in
\* non-decreasing position, events at one position in discovery order; the
\* idx values collect_events assigns are 0, 1, 2, ... in discovery order.
C8_PlainOrdering ==
    /\ pc \in {"collect", "collected"} =>
          \A i \in 1..Len(lyric_events) : lyric_events[i].idx = i - 1
    /\ pc = "extracted" =>
          /\ Len(lines) = Len(lyric_events)
          /\ \A i \in 1..Len(lines) : lines[i].text = lyric_events[i].text
          /\ \A i, j \in 1..Len(lyric_events) :
                i < j =>
                   /\ lyric_events[i].pos <= lyric_events[j].pos
                   /\ lyric_events[i].pos = lyric_events[j].pos =>
                         lyric_events[i].idx < lyric_events[j].idx
          /\ {sorted_events[i].idx : i \in 1..Len(sorted_events)}
                = 0..(raw_count - 1)
          /\ Len(sorted_events) = raw_count

\* C8 witness: lines whose events were discovered in another order than their
\* positions, two of them at one position.
C8_Witness ==
    /\ pc = "extracted"
    /\ \E i, j \in 1..Len(lyric_events) :
          i < j /\ lyric_events[i].idx > lyric_events[j].idx
    /\ \E i \in 1..(Len(lyric_events) - 1) :
          lyric_events[i].pos = lyric_events[i + 1].pos

\* The place of the event with index idx in the sorted events.
SortedPlace(idx) ==
    CHOOSE k \in 1..Len(sorted_events) : sorted_events[k].idx = idx
SameKey(a, b) == a.pos = b.pos /\ a.text = b.text
\* The places of the sorted events that dedupe kept.
KeptPlaces == {SortedPlace(lyric_events[i].idx) : i \in 1..Len(lyric_events)}

\* C5: with dedupe the returned events are an order-preserving subsequence of
\* the sorted events; a sorted event is dropped exactly when its (position,
\* text) equals that of the last kept event before it; no two neighbours of
\* the result share (position, text).  Without dedupe nothing is dropped.
C5_DedupeAdjacent ==
    Extracted =>
       /\ ~dedupe => lyric_events = sorted_events
       /\ dedupe =>
          /\ \A i \in 1..Len(lyric_events) :
                \E k \in 1..Len(sorted_events) : sorted_events[k] = lyric_events[i]
          /\ \A i, j \in 1..Len(lyric_events) :
                i < j => SortedPlace(lyric_events[i].idx)
                            < SortedPlace(lyric_events[j].idx)
          /\ \A k \in 1..Len(sorted_events) :
                LET before == {m \in KeptPlaces : m < k} IN
                (k \notin KeptPlaces) <=>
                   (before # {} /\ SameKey(sorted_events[SetMax(before)],
                                           sorted_events[k]))
          /\ \A i \in 1..(Len(lyric_events) - 1) :
                ~SameKey(lyric_events[i], lyric_events[i + 1])

\* C5 witness: dedupe dropped an event and kept a later event with the same
\* text at another position.
C5_Witness ==
    /\ pc = "extracted" /\ dedupe
    /\ Len(lyric_events) < Len(sorted_events)
    /\ \E i, j \in 1..Len(lyric_events) :
          /\ i < j
          /\ lyric_events[i].text = lyric_events[j].text
          /\ lyric_events[i].pos # lyric_events[j].pos

\* C4: the tempo map extract_lyrics builds from the events collect_events
\* returned is sorted by position and its first entry is at position 0; no
\* event gives [(0, 120.0)]; events whose earliest position is > 0 gain one
\* entry at position 0 with the earliest entry's tempo.
C4_TempoMapNormalized ==
    Extracted =>
       /\ tempo_events # <<>>
       /\ \A i \in 1..(Len(tempo_events) - 1) :
             tempo_events[i].pos <= tempo_events[i + 1].pos
       /\ tempo_events[1].pos = 0
       /\ raw_tempo = <<>> => tempo_events = <<[pos |-> 0, tempo |-> 120]>>
       /\ (raw_tempo # <<>> /\ \A i \in 1..Len(raw_tempo) : raw_tempo[i].pos > 0) =>
             /\ Len(tempo_events) = Len(raw_tempo) + 1
             /\ tempo_events[1].tempo = tempo_events[2].tempo

----------------------------------------------------------------------------
(* Properties of the enhanced path, under SpecEnh *)

\* merge_enhanced_lrc has run to its end: it returned, or the length check raised.
MergeRan == pc = "merged" \/ (pc = "error" /\ error = "Song length mismatch")
\* build_word_timings has run.
WordsBuilt == pc = "words" \/ MergeRan

NonDecreasing(q) == \A i \in 1..(Len(q) - 1) : q[i] <= q[i + 1]

\* C3 as stated: for any tempo map the scans of extract_lyrics and
\* positions_to_times emit one elapsed time per position, in non-decreasing
\* order (the positions they are given are non-decreasing).
C3_ConverterMonotone ==
    /\ pc # "collected" =>
          /\ NonDecreasing(Positions(lyric_events))
          /\ Len(line_times) = Len(lyric_events)
          /\ NonDecreasing(line_times)
    /\ (pc \notin {"collected", "extracted", "words"}) =>
          /\ NonDecreasing(Positions(word_timings))
          /\ Len(word_ms) = Len(word_timings)
          /\ NonDecreasing(word_ms)

\* The syllable of event k continues into the next one.
Continues(k) == EndsWithHyphen(lyric_events[k].text)
\* The text of event k without its continuation hyphen.
Syllable(k) ==
    IF Continues(k)
    THEN SubSeq(lyric_events[k].text, 1, Len(lyric_events[k].text) - 1)
    ELSE lyric_events[k].text
RECURSIVE Concat(_, _)
Concat(i, j) == IF i > j THEN <<>> ELSE Syllable(i) \o Concat(i + 1, j)
\* The events that start a run: the first, and each one after a syllable
\* that does not continue.
RunStarts == {i \in 1..Len(lyric_events) : i = 1 \/ ~Continues(i - 1)}
\* The run that starts at i ends at the first syllable that does not continue.
Complete(i) == \E j \in i..Len(lyric_events) : ~Continues(j)
RunEnd(i) ==
    IF Complete(i)
    THEN CHOOSE j \in i..Len(lyric_events) :
            ~Continues(j) /\ \A m \in i..(j - 1) : Continues(m)
    ELSE Len(lyric_events)
\* The runs that give a word: the last run, when no syllable ends it, gives
\* one only if its text is not empty.
WordRuns == {i \in RunStarts : Complete(i) \/ Concat(i, Len(lyric_events)) # <<>>}
NthWordRun(k) == CHOOSE i \in WordRuns : Cardinality({r \in WordRuns : r <= i}) = k

\* C6: build_word_timings gives one Word per maximal run of syllables of which
\* all but the last end with a hyphen, in order: its text is the syllables
\* without their continuation hyphens, concatenated, and its position is the
\* position of the first syllable of the run; the buffer left after the last
\* event is flushed as a last Word when its text is not empty.
C6_WordsFromRuns ==
    WordsBuilt =>
       /\ Len(word_timings) = Cardinality(WordRuns)
       /\ \A k \in 1..Len(word_timings) :
             LET i == NthWordRun(k) IN
             /\ word_timings[k].pos = lyric_events[i].pos
             /\ word_timings[k].text = Concat(i, RunEnd(i))

\* C6 witness: a Word of two syllables that lie at two positions, and a last
\* Word flushed from a buffer no syllable ended.
C6_Witness ==
    /\ pc = "words"
    /\ \E k \in 1..Len(word_timings) :
          LET i == NthWordRun(k) IN
          /\ RunEnd(i) > i
          /\ lyric_events[RunEnd(i)].pos # lyric_events[i].pos
          /\ word_timings[k].text = <<"a", "a">>

\* The time of a line of extract_lyrics: its tag without the brackets.
LineTime(i) == SubSeq(lines[i].tag, 2, Len(lines[i].tag) - 1)

C2_LengthMismatchChecked ==
    (MergeRan /\ word_ms # <<>> /\ last_lrc_time(lrc_lines) # <<>>) =>
       LET lastWord == RoundCentis(word_ms[Len(word_ms)])
           lastTag == last_lrc_time(lrc_lines)[1]
       IN IF lastWord - lastTag > length_tolerance /\ ~force
          THEN pc = "error" /\ error = "Song length mismatch" /\ output = <<>>
          ELSE pc = "merged" /\ Len(output) >= Len(lrc_lines)

\* The characters normalize_token is meant to trim.
Punctuation ==
    {"\"", "'", "(", ")", "[", "]", "{", "}", "<", ">", ":", ";", ",", ".", "?", "!"}
\* A token with alignable content: a character that is neither punctuation
\* nor white space.
HasContent(token) ==
    \E k \in 1..Len(token) : token[k] \notin Punctuation /\ ~IsSpace(token[k])

\* The non-empty tokens of line i of the file.
LineTokens(i) ==
    LET all == Split(lrc_lines[i].text) IN SelectSeq(all, LAMBDA t : t # <<>>)
RECURSIVE ContentCount(_)
ContentCount(tokens) ==
    IF tokens = <<>> THEN 0
    ELSE (IF HasContent(Head(tokens)) THEN 1 ELSE 0) + ContentCount(Tail(tokens))
RECURSIVE ContentBefore(_)
\* The tokens with content of the lines before line i.
ContentBefore(i) ==
    IF i <= 1 THEN 0
    ELSE ContentBefore(i - 1) + ContentCount(LineTokens(i - 1))
\* What token j of line i is to become.
AlignedToken(i, j) ==
    LET toks == LineTokens(i)
        n == ContentBefore(i) + ContentCount(SubSeq(toks, 1, j))
    IN IF HasContent(toks[j]) /\ n <= Len(word_times)
       THEN <<"<">> \o word_times[n].time \o <<">">> \o toks[j]
       ELSE toks[j]
AlignedLine(i) ==
    IF lrc_lines[i].text = <<>> THEN lrc_lines[i].tag
    ELSE rstrip(lrc_lines[i].tag \o <<Space>>
                \o Join([j \in 1..Len(LineTokens(i)) |-> AlignedToken(i, j)]))

\* C1 as stated: scanning the lines top to bottom and their tokens left to
\* right, the Nth token with alignable content is prefixed with the time of
\* the Nth word, for every N up to the number of words; a token of
\* punctuation only takes no word and is emitted unchanged, and so is every
\* token once the words are used up.
C1_PositionalAlignment ==
    pc = "merged" =>
       LET skip == Len(output) - Len(lrc_lines) IN
       /\ skip >= 0
       /\ \A i \in 1..Len(lrc_lines) : output[skip + i] = AlignedLine(i)

====
